---------------------------- MODULE Spec2Model ----------------------------
(***************************************************************************)
(* Model of moveit_planners/ompl/ompl_interface/src/                       *)
(* planning_context_manager.cpp: the context cache and its acquisition     *)
(* (PlanningContextManager::getPlanningContext(config, factory, req)),     *)
(* the state-space factory selection, and the top-level request handler.   *)
(***************************************************************************)
EXTENDS Integers, Sequences, FiniteSets, TLC

(***************************************************************************)
(* Bounds of the model.                                                    *)
(***************************************************************************)
\* number of ModelBasedPlanningContext objects that may be constructed
MaxCtx == 3

\* the callers (threads / service calls) of the concurrent specification
Threads == {"t1", "t2"}

Null == 0
NoThread == "none"

(***************************************************************************)
(* Program constants.                                                      *)
(***************************************************************************)
\* ConstrainedPlanningStateSpace::PARAMETERIZATION_TYPE
ConstrainedType == "ConstrainedPlanningJointModel"
\* JointModelStateSpace::PARAMETERIZATION_TYPE
JointType == "JointModel"
\* PoseModelStateSpace::PARAMETERIZATION_TYPE
PoseType == "PoseModel"
\* the type of a factory registered by the user of the manager
CustomType == "CustomModel"

\* constructor defaults of the manager's numeric limits
DefaultMaxGoalSamples == 10
DefaultMaxStateSamplingAttempts == 4
DefaultMaxGoalSamplingAttempts == 1000
DefaultMaxPlanningThreads == 4
DefaultMaxSolutionSegmentLength == 0
DefaultMinimumWaypointCount == 2

VARIABLES
  contexts_,      \* CachedContexts::contexts_ : (name, type) -> <<context ids>>
  lock_,          \* CachedContexts::lock_ : the thread inside a critical section
  heap,           \* the constructed contexts: id -> its fields
  refs,           \* id -> the callers holding a shared_ptr to it (the cache's
                  \* own reference is the id's presence in contexts_)
  nextId,         \* the next context to be constructed
  pc,             \* per thread: its place in getPlanningContext(config, factory, req)
  call,           \* per thread: the arguments of its call
  context,        \* per thread: the local shared_ptr `context` / the handle returned
  idx,            \* per thread: the place of the scan in the cached list
  freeAtLock,     \* history: the key's cached contexts that were unheld when
                  \* the thread took the lock for its lookup
  hit,            \* history: the thread's context came out of the cache
  everReturned,   \* history: the contexts returned by some acquisition so far
  peak,           \* history, per key of the cache: the greatest number of
                  \* callers at the same time with a context of the key held
                  \* or under construction (out), and with an acquisition for
                  \* the key begun and its context not yet released (active)
  mgr,            \* the manager's numeric limits (max_goal_samples_, ...)
  nsets,          \* the number of calls of the manager's limit setters so far
  planner_configs_,        \* the planner configurations: key -> settings
  state_space_factories_,  \* the registered factories: type -> factory
  req,            \* the last request given to the top-level getPlanningContext
  result,         \* what that call did and returned
  registered,     \* history: the types of the factories in the order of their
                  \* first registration
  known_planners_,  \* the registered planner allocators: planner id -> allocator
  planners_,      \* MultiQueryPlannerAllocator::planners_ : name -> planner
  planner_data_storage_paths_,  \* the allocator's name -> file path
  storage_,       \* the files of PlannerDataStorage: path -> planner data
  made,           \* the number of planner instances constructed so far
  alloc           \* the last call made on the allocator and what it returned

cacheVars == <<contexts_, lock_, heap, refs, nextId>>
threadVars == <<pc, call, context, idx, freeAtLock, hit, everReturned, peak>>
allocVars == <<planners_, planner_data_storage_paths_, storage_, made, alloc>>
regVars == <<state_space_factories_, registered, known_planners_>>
topVars == <<nsets, planner_configs_, regVars, req, result, allocVars>>
vars == <<cacheVars, threadVars, mgr, topVars>>

(***************************************************************************)
(* Values.                                                                 *)
(***************************************************************************)
CtxIds == 1..MaxCtx

\* the configuration names and parameter sets the callers pass
\* (strings that the code searches or concatenates are sequences of characters)
ConfigNames == {<<"a">>, <<"a", "[", "P", "]">>}
ConfigParams == {[range |-> "1"]}
\* the types of the factories handed to the acquisition
FactoryTypes == {JointType, ConstrainedType}

\* a limit of a context is <<>> until a setter has been called on it, and
\* <<v>> afterwards
NoLimits ==
  [max_planning_threads |-> <<>>, max_goal_samples |-> <<>>,
   max_state_sampling_attempts |-> <<>>, max_goal_sampling_attempts |-> <<>>,
   max_solution_segment_length |-> <<>>, minimum_waypoint_count |-> <<>>]

\* the manager as its constructor leaves it
ManagerInit ==
  [max_goal_samples_ |-> DefaultMaxGoalSamples,
   max_state_sampling_attempts_ |-> DefaultMaxStateSamplingAttempts,
   max_goal_sampling_attempts_ |-> DefaultMaxGoalSamplingAttempts,
   max_planning_threads_ |-> DefaultMaxPlanningThreads,
   max_solution_segment_length_ |-> DefaultMaxSolutionSegmentLength,
   minimum_waypoint_count_ |-> DefaultMinimumWaypointCount]

\* a context destroyed when its last shared_ptr went away
Destroyed == [name |-> <<>>, type |-> "", limits |-> NoLimits, config |-> << >>]

(***************************************************************************)
(* The cache: helpers of getPlanningContext(config, factory, req).         *)
(***************************************************************************)
Key(name, type) == <<name, type>>

\* contexts_.find(key) != end()
HasEntry(cache, key) == key \in DOMAIN cache

\* the list found under key (empty when find() fails: the loop is skipped)
CachedList(cache, key) == IF HasEntry(cache, key) THEN cache[key] ELSE <<>>

\* the contexts some list of the cache holds
CachedIds(cache) == UNION {{cache[k][i] : i \in 1..Len(cache[k])} : k \in DOMAIN cache}

\* mutants of unique(): a cached context always / never counts as unheld
IsUniqueAlways(r, c) == TRUE
IsUniqueNever(r, c) == FALSE

\* shared_ptr::unique() of a cached pointer: use_count() == 1, the cache's own
\* reference being the only one
IsUnique(r, c) == r[c] = {}

\* mutant of the insertion: the new context replaces the key's list
PushBackReplace(cache, key, c) ==
  [k \in DOMAIN cache \cup {key} |-> IF k = key THEN <<c>> ELSE cache[k]]

\* contexts_[key].push_back(context): operator[] creates the entry
PushBack(cache, key, c) ==
  IF HasEntry(cache, key)
    THEN [cache EXCEPT ![key] = Append(@, c)]
    ELSE [k \in DOMAIN cache \cup {key} |-> IF k = key THEN <<c>> ELSE cache[k]]

\* mutant of the caching test: every context built is cached
ShouldCacheAlways(type) == TRUE

\* factory->getType() != ConstrainedPlanningStateSpace::PARAMETERIZATION_TYPE
ShouldCache(type) == type # ConstrainedType

\* std::make_shared<ModelBasedPlanningContext>(config.name, context_spec)
NewContext(config, type) ==
  [name |-> config.name, type |-> type, limits |-> NoLimits, config |-> config.config]

\* max_solution_segment_length_ > std::numeric_limits<double>::epsilon()
\* (lengths are counted in units larger than epsilon: 0 is 0.0)
AboveEpsilon(x) == x > 0

\* the setters called on the context before it is returned
ApplyLimits(ctx, m, config) ==
  [ctx EXCEPT
     !.limits = [@ EXCEPT
        !.max_planning_threads = <<m.max_planning_threads_>>,
        !.max_goal_samples = <<m.max_goal_samples_>>,
        !.max_state_sampling_attempts = <<m.max_state_sampling_attempts_>>,
        !.max_goal_sampling_attempts = <<m.max_goal_sampling_attempts_>>,
        !.max_solution_segment_length =
           IF AboveEpsilon(m.max_solution_segment_length_)
             THEN <<m.max_solution_segment_length_>> ELSE @,
        !.minimum_waypoint_count = <<m.minimum_waypoint_count_>>],
     !.config = config.config]

\* the last shared_ptr of a context going away destroys it
DropRef(h, cache, r, c) ==
  IF r[c] = {} /\ c \notin CachedIds(cache) THEN [h EXCEPT ![c] = Destroyed] ELSE h


(***************************************************************************)
(* The state-space factory registry and its selectors.                     *)
(***************************************************************************)
Factory(type) == [type |-> type, null |-> FALSE]
\* static const ModelBasedStateSpaceFactoryPtr EMPTY
EMPTY == [type |-> "", null |-> TRUE]

\* state_space_factories_ is a std::map keyed by the type name: it is walked
\* in the order of the names, "ConstrainedPlanningJointModel" < "CustomModel"
\* < "JointModel" < "PoseModel"
TypeNameOrder == <<ConstrainedType, CustomType, JointType, PoseType>>

\* begin() .. end() of the map
MapOrder(m) == SelectSeq(TypeNameOrder, LAMBDA t : t \in DOMAIN m)

\* registerStateSpaceFactory(factory): state_space_factories_[factory->getType()] = factory
RegisterStateSpaceFactory(m, f) ==
  [t \in DOMAIN m \cup {f.type} |-> IF t = f.type THEN f ELSE m[t]]

\* registerDefaultStateSpaces(): joint, pose, constrained, in this order
RegisterDefaultStateSpaces ==
  RegisterStateSpaceFactory(
    RegisterStateSpaceFactory(
      RegisterStateSpaceFactory(<< >>, Factory(JointType)),
      Factory(PoseType)),
    Factory(ConstrainedType))

\* the order of the calls of registerDefaultStateSpaces()
DefaultRegistrationOrder == <<JointType, PoseType, ConstrainedType>>

\* getStateSpaceFactory(factory_type), were end() - 1 taken for an empty type
GetStateSpaceFactoryByTypeLast(m, factory_type) ==
  LET order == MapOrder(m) IN
    IF factory_type = ""
      THEN IF Len(order) > 0 THEN m[order[Len(order)]] ELSE EMPTY
      ELSE IF factory_type \in DOMAIN m THEN m[factory_type] ELSE EMPTY

\* getStateSpaceFactory(factory_type)
GetStateSpaceFactoryByType(m, factory_type) ==
  LET order == MapOrder(m) IN
    IF factory_type = ""
      THEN IF Len(order) > 0 THEN m[order[1]] ELSE EMPTY
      ELSE IF factory_type \in DOMAIN m THEN m[factory_type] ELSE EMPTY

\* the loop, were prev_priority left at 0
RECURSIVE BestFromNoUpdate(_, _, _, _, _)
BestFromNoUpdate(order, scores, i, best, prev_priority) ==
  IF i > Len(order) THEN best
  ELSE IF scores[order[i]] > prev_priority
    THEN BestFromNoUpdate(order, scores, i + 1, i, prev_priority)
    ELSE BestFromNoUpdate(order, scores, i + 1, best, prev_priority)

\* the loop, were the comparison priority >= prev_priority
RECURSIVE BestFromLastWins(_, _, _, _, _)
BestFromLastWins(order, scores, i, best, prev_priority) ==
  IF i > Len(order) THEN best
  ELSE IF scores[order[i]] >= prev_priority
    THEN BestFromLastWins(order, scores, i + 1, i, scores[order[i]])
    ELSE BestFromLastWins(order, scores, i + 1, best, prev_priority)

\* the loop of getStateSpaceFactory(group, req): best and prev_priority after
\* the factories order[i..] have been asked; 0 stands for best == end()
RECURSIVE BestFrom(_, _, _, _, _)
BestFrom(order, scores, i, best, prev_priority) ==
  IF i > Len(order) THEN best
  ELSE IF scores[order[i]] > prev_priority
    THEN BestFrom(order, scores, i + 1, i, scores[order[i]])
    ELSE BestFrom(order, scores, i + 1, best, prev_priority)

\* getStateSpaceFactory(group, req); scores[t] is what the factory of type t
\* answers to canRepresentProblem(group, req, robot_model_)
GetStateSpaceFactoryByProblem(m, scores) ==
  LET order == MapOrder(m)
      best == BestFrom(order, scores, 1, 0, 0)
  IN IF best = 0 THEN EMPTY ELSE m[order[best]]

(***************************************************************************)
(* Planner configurations and their resolution.                            *)
(***************************************************************************)
\* std::string::find(needle) != npos
Contains(hay, needle) ==
  \E i \in 0..(Len(hay) - Len(needle)) : SubSeq(hay, i + 1, i + Len(needle)) = needle

\* req.group_name + "[" + req.planner_id + "]"
Composite(group_name, planner_id) == group_name \o <<"[">> \o planner_id \o <<"]">>

\* the key of the first find, were the planner id never taken as the key
PlannerKeyAlwaysComposite(group_name, planner_id) == Composite(group_name, planner_id)

\* the key of the first planner_configs_.find of the handler
PlannerKey(group_name, planner_id) ==
  IF ~Contains(planner_id, group_name)
    THEN Composite(group_name, planner_id)
    ELSE planner_id

\* `pc` after the two lookups: the key found, or NotFound for end()
NotFound == <<"?">>
ResolveConfig(configs, group_name, planner_id) ==
  LET first == IF planner_id # <<>> /\ PlannerKey(group_name, planner_id) \in DOMAIN configs
                 THEN PlannerKey(group_name, planner_id)
                 ELSE NotFound
  IN IF first # NotFound THEN first
     ELSE IF group_name \in DOMAIN configs THEN group_name ELSE NotFound

\* boost::lexical_cast<bool> of a flag of the configuration: "1" and "0" are
\* read, any other text throws boost::bad_lexical_cast
LexicalCastThrows(v) == v \notin {"0", "1"}
LexicalCastBool(v) == v = "1"

\* config.find(flag) != config.end() && boost::lexical_cast<bool>(it->second)
FlagSet(config, flag) == flag \in DOMAIN config /\ LexicalCastBool(config[flag])

\* whether one of the casts the selection evaluates throws: the cast of the
\* first flag comes before the test of the constraints, the cast of the
\* second flag is reached when the first condition is false
SelectionThrows(settings, rq) ==
  LET config == settings.config
      ec == "enforce_constrained_state_space"
      ej == "enforce_joint_model_state_space"
  IN IF ec \in DOMAIN config /\ LexicalCastThrows(config[ec]) THEN TRUE
     ELSE IF FlagSet(config, ec) /\ (rq.npos = 1 \/ rq.nori = 1) THEN FALSE
     ELSE ej \in DOMAIN config /\ LexicalCastThrows(config[ej])

\* the three-tier selection of the factory, with the tiers in another order
SelectFactoryJointFirst(m, settings, rq) ==
  IF FlagSet(settings.config, "enforce_joint_model_state_space")
    THEN GetStateSpaceFactoryByType(m, JointType)
  ELSE IF /\ FlagSet(settings.config, "enforce_constrained_state_space")
          /\ (rq.npos = 1 \/ rq.nori = 1)
    THEN GetStateSpaceFactoryByType(m, ConstrainedType)
  ELSE GetStateSpaceFactoryByProblem(m, rq.scores)

\* the three-tier selection of the factory
SelectFactory(m, settings, rq) ==
  IF /\ FlagSet(settings.config, "enforce_constrained_state_space")
     /\ (rq.npos = 1 \/ rq.nori = 1)
    THEN GetStateSpaceFactoryByType(m, ConstrainedType)
  ELSE IF FlagSet(settings.config, "enforce_joint_model_state_space")
    THEN GetStateSpaceFactoryByType(m, JointType)
  ELSE GetStateSpaceFactoryByProblem(m, rq.scores)

(***************************************************************************)
(* getPlanningContext(config, factory, req) as one call (no other caller   *)
(* runs between its steps).                                                *)
(***************************************************************************)
\* the loop over the cached list: the place of the first unique() context
\* from place i on, 0 when there is none
RECURSIVE FirstUnique(_, _, _)
FirstUnique(list, r, i) ==
  IF i > Len(list) THEN 0
  ELSE IF IsUnique(r, list[i]) THEN i
  ELSE FirstUnique(list, r, i + 1)

\* the call made by caller t: the context returned and the cache, the
\* contexts and the references it leaves
Acquire(cache, h, r, next, m, t, config, type) ==
  LET key == Key(config.name, type)
      list == CachedList(cache, key)
      i == FirstUnique(list, r, 1)
  IN IF i > 0
       THEN [ctx |-> list[i], hit |-> TRUE, cache |-> cache, next |-> next,
             heap |-> [h EXCEPT ![list[i]] = ApplyLimits(@, m, config)],
             refs |-> [r EXCEPT ![list[i]] = @ \cup {t}]]
       ELSE [ctx |-> next, hit |-> FALSE, next |-> next + 1,
             cache |-> IF ShouldCache(type) THEN PushBack(cache, key, next) ELSE cache,
             heap |-> [h EXCEPT ![next] = ApplyLimits(NewContext(config, type), m, config)],
             refs |-> [r EXCEPT ![next] = {t}]]

\* whether the call has to construct a context
Builds(cache, r, config, type) ==
  FirstUnique(CachedList(cache, Key(config.name, type)), r, 1) = 0

(***************************************************************************)
(* The planner registry: registerDefaultPlanners and plannerSelector.      *)
(***************************************************************************)
\* an allocator bound to the planner type T, and the empty
\* ConfiguredPlannerAllocator()
Allocator(T) == [null |-> FALSE, T |-> T]
NullAllocator == [null |-> TRUE, T |-> ""]
\* no allocator was asked for
NoAllocator == [null |-> FALSE, T |-> ""]

\* the planner ids registered by the constructor, each with its planner type
DefaultPlanners ==
  <<<<"geometric::AnytimePathShortening", "og::AnytimePathShortening">>,
    <<"geometric::BFMT", "og::BFMT">>,
    <<"geometric::BiEST", "og::BiEST">>,
    <<"geometric::BiTRRT", "og::BiTRRT">>,
    <<"geometric::BKPIECE", "og::BKPIECE1">>,
    <<"geometric::EST", "og::EST">>,
    <<"geometric::FMT", "og::FMT">>,
    <<"geometric::KPIECE", "og::KPIECE1">>,
    <<"geometric::LazyPRM", "og::LazyPRM">>,
    <<"geometric::LazyPRMstar", "og::LazyPRMstar">>,
    <<"geometric::LazyRRT", "og::LazyRRT">>,
    <<"geometric::LBKPIECE", "og::LBKPIECE1">>,
    <<"geometric::LBTRRT", "og::LBTRRT">>,
    <<"geometric::PDST", "og::PDST">>,
    <<"geometric::PRM", "og::PRM">>,
    <<"geometric::PRMstar", "og::PRMstar">>,
    <<"geometric::ProjEST", "og::ProjEST">>,
    <<"geometric::RRT", "og::RRT">>,
    <<"geometric::RRTConnect", "og::RRTConnect">>,
    <<"geometric::RRTstar", "og::RRTstar">>,
    <<"geometric::SBL", "og::SBL">>,
    <<"geometric::SPARS", "og::SPARS">>,
    <<"geometric::SPARStwo", "og::SPARStwo">>,
    <<"geometric::STRIDE", "og::STRIDE">>,
    <<"geometric::TRRT", "og::TRRT">>,
    <<"geometric::PRMcustom", "og::PRMcustom">>>>

\* registerDefaultPlanners(): known_planners_ after the constructor
RegisterDefaultPlanners ==
  [id \in {DefaultPlanners[i][1] : i \in DOMAIN DefaultPlanners} |->
     Allocator(DefaultPlanners[CHOOSE i \in DOMAIN DefaultPlanners :
                                 DefaultPlanners[i][1] = id][2])]

\* plannerSelector with some registered allocator returned for an unknown id
PlannerSelectorSomeKnown(known, planner) ==
  IF planner \in DOMAIN known THEN known[planner]
  ELSE known[CHOOSE id \in DOMAIN known : TRUE]

\* plannerSelector(planner): the allocator registered under the id, the
\* empty allocator for an id that is not registered
PlannerSelector(known, planner) ==
  IF planner \in DOMAIN known THEN known[planner]
  ELSE NullAllocator

(***************************************************************************)
(* The top-level getPlanningContext(planning_scene, req, error_code, ...). *)
(***************************************************************************)
NoReq ==
  [group_name |-> <<>>, planner_id |-> <<>>, npos |-> 0, nori |-> 0, scene |-> FALSE,
   scores |-> << >>, path_ok |-> FALSE, goal_ok |-> FALSE, configure |-> ""]

\* result.outcome is "returned", or "fault" when the call did not return;
\* key is the planner configuration resolved, factory the factory selected,
\* asked the type given to getStateSpaceFactory(factory_type)
NoFactory == [type |-> "", null |-> FALSE]
NoResult ==
  [outcome |-> "", ctx |-> Null, err |-> "", stage |-> "", key |-> NotFound,
   factory |-> NoFactory, acquired |-> Null, hit |-> FALSE, asked |-> "",
   allocator |-> NoAllocator]

\* what a call that stops before the acquisition returns
EarlyReturn(err, stage, key, factory) ==
  [outcome |-> "returned", ctx |-> Null, err |-> err, stage |-> stage, key |-> key,
   factory |-> factory, acquired |-> Null, hit |-> FALSE, asked |-> "",
   allocator |-> NoAllocator]

\* the allocator context->configure asks of the planner selector: the one
\* for the planner type the configuration names, none when it names no type
AllocatorAsked(known, settings) ==
  IF "type" \in DOMAIN settings.config
    THEN PlannerSelector(known, settings.config["type"])
    ELSE NoAllocator

\* configure returning whatever the allocator and the request are
ConfigureAlwaysOk(known, settings, rq) == "ok"

\* context->configure(node, use_constraints_approximation): "ok" when it
\* returns, else the exception it raises. Configuring with the empty
\* allocator fails with the library's exception; any other outcome is the
\* request's
Configure(known, settings, rq) ==
  IF AllocatorAsked(known, settings).null THEN "ompl::Exception"
  ELSE rq.configure

\* catch (ompl::Exception& ex): the exceptions the handler catches
Caught(ex) == ex = "ompl::Exception"

\* the handler from the acquisition on: the context is acquired for the
\* configuration `settings` and a factory of type `type`, the request state
\* is applied and the context is configured. The fields are the values the
\* call leaves in the manager, `held` whether the caller got a context
AcquireAndConfigure(t, rq, key, settings, factory, type) ==
  LET a == Acquire(contexts_, heap, refs, nextId, mgr, t, settings, type)
      dropped == [a.refs EXCEPT ![a.ctx] = @ \ {t}]
      after(ctx, err, stage) ==
        [result |-> [outcome |-> "returned", ctx |-> ctx, err |-> err, stage |-> stage,
                     key |-> key, factory |-> factory, acquired |-> a.ctx, hit |-> a.hit,
                     asked |-> "", allocator |-> NoAllocator],
         cache |-> a.cache, next |-> a.next,
         refs |-> IF ctx = Null THEN dropped ELSE a.refs,
         heap |-> IF ctx = Null THEN DropRef(a.heap, a.cache, dropped, a.ctx) ELSE a.heap,
         held |-> ctx # Null,
         returned |-> {a.ctx}]
  IN IF ~rq.path_ok THEN after(Null, "FAILURE", "path_constraints")
     ELSE IF ~rq.goal_ok THEN after(Null, "FAILURE", "goal_constraints")
     ELSE LET ex == Configure(known_planners_, settings, rq)
              asked == AllocatorAsked(known_planners_, settings)
              done == IF ex = "ok" THEN after(a.ctx, "SUCCESS", "done")
                      ELSE after(Null, "FAILURE", "configure")
          IN [done EXCEPT !.result.allocator = asked,
                          !.result.outcome = IF ex = "ok" \/ Caught(ex) THEN "returned"
                                             ELSE "threw"]

\* a call that leaves the manager as it is
Untouched(res) ==
  [result |-> res, cache |-> contexts_, next |-> nextId, refs |-> refs, heap |-> heap,
   held |-> FALSE, returned |-> {}]

\* what factory->getType() on the null factory may do: the call faults, or it
\* reads some type and goes on
UbOutcomes == {"fault"} \cup DOMAIN RegisterDefaultStateSpaces

\* the two checks at the entry of the handler, with the scene checked first
ValidateSceneFirst(rq) ==
  IF ~rq.scene THEN "FAILURE"
  ELSE IF rq.group_name = <<>> THEN "INVALID_GROUP_NAME"
  ELSE "ok"

\* the two checks at the entry of the handler: the error code of the early
\* return, "ok" when the call goes on
ValidateRequest(rq) ==
  IF rq.group_name = <<>> THEN "INVALID_GROUP_NAME"
  ELSE IF ~rq.scene THEN "FAILURE"
  ELSE "ok"

\* the whole handler, for caller t, request rq, and ub the outcome of the
\* undefined behaviour should the call run into it
GetPlanningContext(t, rq, ub) ==
  IF ValidateRequest(rq) # "ok"
    THEN Untouched(EarlyReturn(ValidateRequest(rq), "validate", NotFound, NoFactory))
  ELSE LET key == ResolveConfig(planner_configs_, rq.group_name, rq.planner_id) IN
    IF key = NotFound
      THEN Untouched(EarlyReturn("FAILURE", "no_config", NotFound, NoFactory))
    ELSE IF SelectionThrows(planner_configs_[key], rq)
      THEN Untouched([EarlyReturn("FAILURE", "bad_lexical_cast", key, NoFactory)
                        EXCEPT !.outcome = "threw"])
    ELSE LET settings == planner_configs_[key]
             factory == SelectFactory(state_space_factories_, settings, rq)
         IN IF factory.null
              THEN IF ub = "fault"
                     THEN Untouched([EarlyReturn("FAILURE", "null_factory", key, factory)
                                       EXCEPT !.outcome = "fault"])
                     ELSE AcquireAndConfigure(t, rq, key, settings, factory, ub)
              ELSE AcquireAndConfigure(t, rq, key, settings, factory, factory.type)

\* the configuration a request resolves to
ResolvedSettings(rq) ==
  planner_configs_[ResolveConfig(planner_configs_, rq.group_name, rq.planner_id)]

\* whether the call reaches the acquisition, with a usable or a null factory
ReachesAcquisition(rq) ==
  /\ ValidateRequest(rq) = "ok"
  /\ ResolveConfig(planner_configs_, rq.group_name, rq.planner_id) # NotFound
  /\ ~SelectionThrows(ResolvedSettings(rq), rq)

SelectedFactory(rq) == SelectFactory(state_space_factories_, ResolvedSettings(rq), rq)

(***************************************************************************)
(* getPlanningContext(config, factory, req), step by step, called          *)
(* concurrently.                                                           *)
(***************************************************************************)
\* the arguments a caller may pass
Configs == [name : ConfigNames, config : ConfigParams]
NoCall == [name |-> <<>>, type |-> "", config |-> << >>]

KeyOf(t) == Key(call[t].name, call[t].type)

\* the keys of the cache the callers may ask for
Keys == {Key(name, type) : name \in ConfigNames, type \in FactoryTypes}

\* the callers that hold a context of the key or are constructing one, having
\* missed, when the callers are at the places pcs of the calls `calls`
OutstandingFor(key, pcs, calls) ==
  {t \in Threads : /\ Key(calls[t].name, calls[t].type) = key
                   /\ pcs[t] \in {"build", "insert", "apply", "held"}}

\* the callers with an acquisition for the key begun, up to the release of
\* the context it returned
ActiveFor(key, pcs, calls) ==
  {t \in Threads : /\ Key(calls[t].name, calls[t].type) = key
                   /\ pcs[t] # "idle"}

Max2(a, b) == IF a >= b THEN a ELSE b

\* the greatest numbers so far, the callers having come to the places pcs
PeakAfter(pk, pcs, calls) ==
  [k \in Keys |->
     [out |-> Max2(pk[k].out, Cardinality(OutstandingFor(k, pcs, calls))),
      active |-> Max2(pk[k].active, Cardinality(ActiveFor(k, pcs, calls)))]]

\* the cached contexts of a key that nobody but the cache holds
FreeIn(cache, r, key) ==
  {c \in CachedIds(cache) :
     /\ \E i \in 1..Len(CachedList(cache, key)) : CachedList(cache, key)[i] = c
     /\ r[c] = {}}

\* a null ob::PlannerPtr
NullPlanner ==
  [null |-> TRUE, id |-> 0, type |-> "", name |-> "", params |-> << >>, applied |-> FALSE,
   graph |-> 0, seeded |-> FALSE]

\* what a call found under its name: the instance and its graph
Found(planner) == [null |-> planner.null, id |-> planner.id, graph |-> planner.graph]

\* no call was made on the allocator yet; old is what a call found under
\* its name
NoAlloc ==
  [op |-> "", outcome |-> "", name |-> "", type |-> "", config |-> << >>,
   planner |-> NullPlanner, old |-> Found(NullPlanner)]

\* the manager right after its constructor: an empty cache, no caller
InitManager ==
  /\ contexts_ = << >>
  /\ lock_ = NoThread
  /\ heap = [c \in CtxIds |-> Destroyed]
  /\ refs = [c \in CtxIds |-> {}]
  /\ nextId = 1
  /\ pc = [t \in Threads |-> "idle"]
  /\ call = [t \in Threads |-> NoCall]
  /\ context = [t \in Threads |-> Null]
  /\ idx = [t \in Threads |-> 0]
  /\ freeAtLock = [t \in Threads |-> {}]
  /\ hit = [t \in Threads |-> FALSE]
  /\ everReturned = {}
  /\ peak = [k \in Keys |-> [out |-> 0, active |-> 0]]
  /\ mgr = ManagerInit
  /\ nsets = 0
  /\ state_space_factories_ = RegisterDefaultStateSpaces
  /\ registered = DefaultRegistrationOrder
  /\ known_planners_ = RegisterDefaultPlanners
  /\ planners_ = << >>
  /\ planner_data_storage_paths_ = << >>
  /\ made = 0
  /\ alloc = NoAlloc
  /\ req = NoReq
  /\ result = NoResult

Init ==
  /\ InitManager
  /\ planner_configs_ = << >>
  /\ storage_ = << >>

\* the call, and std::unique_lock slock(cached_contexts_->lock_) with
\* contexts_.find(key)
LockLookup(t, config, type) ==
  /\ pc[t] = "idle"
  /\ lock_ = NoThread
  /\ lock_' = t
  /\ call' = [call EXCEPT ![t] = [name |-> config.name, type |-> type, config |-> config.config]]
  /\ idx' = [idx EXCEPT ![t] = 1]
  /\ pc' = [pc EXCEPT ![t] = "scan"]
  /\ freeAtLock' = [freeAtLock EXCEPT ![t] = FreeIn(contexts_, refs, Key(config.name, type))]
  /\ hit' = [hit EXCEPT ![t] = FALSE]
  /\ peak' = PeakAfter(peak, pc', call')
  /\ UNCHANGED <<contexts_, heap, refs, nextId, context, everReturned, mgr, topVars>>

\* one turn of the loop over the cached list: unique() and, when it holds,
\* context = cached_context and break; the lock is released at the end of
\* the block
ScanStep(t) ==
  /\ pc[t] = "scan"
  /\ lock_ = t
  /\ LET list == CachedList(contexts_, KeyOf(t)) IN
       IF idx[t] > Len(list)
         THEN /\ lock_' = NoThread
              /\ pc' = [pc EXCEPT ![t] = "build"]
              /\ UNCHANGED <<refs, context, idx, hit>>
         ELSE IF IsUnique(refs, list[idx[t]])
           THEN /\ context' = [context EXCEPT ![t] = list[idx[t]]]
                /\ refs' = [refs EXCEPT ![list[idx[t]]] = @ \cup {t}]
                /\ hit' = [hit EXCEPT ![t] = TRUE]
                /\ lock_' = NoThread
                /\ pc' = [pc EXCEPT ![t] = "apply"]
                /\ UNCHANGED idx
           ELSE /\ idx' = [idx EXCEPT ![t] = @ + 1]
                /\ UNCHANGED <<refs, context, hit, lock_, pc>>
  /\ peak' = PeakAfter(peak, pc', call)
  /\ UNCHANGED <<contexts_, heap, nextId, call, freeAtLock, everReturned, mgr, topVars>>

\* if (!context): the state space, the specification and
\* std::make_shared<ModelBasedPlanningContext>, outside the lock
Build(t) ==
  /\ pc[t] = "build"
  /\ nextId <= MaxCtx
  /\ heap' = [heap EXCEPT ![nextId] = NewContext(call[t], call[t].type)]
  /\ refs' = [refs EXCEPT ![nextId] = {t}]
  /\ context' = [context EXCEPT ![t] = nextId]
  /\ nextId' = nextId + 1
  /\ pc' = [pc EXCEPT ![t] = IF ShouldCache(call[t].type) THEN "insert" ELSE "apply"]
  /\ UNCHANGED <<contexts_, lock_, call, idx, freeAtLock, hit, everReturned, peak, mgr, topVars>>

\* std::lock_guard slock(cached_contexts_->lock_); contexts_[key].push_back(context)
Insert(t) ==
  /\ pc[t] = "insert"
  /\ lock_ = NoThread
  /\ contexts_' = PushBack(contexts_, KeyOf(t), context[t])
  /\ pc' = [pc EXCEPT ![t] = "apply"]
  /\ UNCHANGED <<lock_, heap, refs, nextId, call, context, idx, freeAtLock, hit,
                 everReturned, peak, mgr, topVars>>

\* the setters on the context, and return context
ApplyAndReturn(t) ==
  /\ pc[t] = "apply"
  /\ heap' = [heap EXCEPT ![context[t]] = ApplyLimits(@, mgr, call[t])]
  /\ everReturned' = everReturned \cup {context[t]}
  /\ pc' = [pc EXCEPT ![t] = "held"]
  /\ UNCHANGED <<contexts_, lock_, refs, nextId, call, context, idx, freeAtLock, hit, peak, mgr,
                 topVars>>

\* the caller drops the handle it was returned
Release(t) ==
  /\ pc[t] = "held"
  /\ LET r == [refs EXCEPT ![context[t]] = @ \ {t}] IN
       /\ refs' = r
       /\ heap' = DropRef(heap, contexts_, r, context[t])
  /\ context' = [context EXCEPT ![t] = Null]
  /\ call' = [call EXCEPT ![t] = NoCall]
  /\ idx' = [idx EXCEPT ![t] = 0]
  /\ freeAtLock' = [freeAtLock EXCEPT ![t] = {}]
  /\ hit' = [hit EXCEPT ![t] = FALSE]
  /\ pc' = [pc EXCEPT ![t] = "idle"]
  /\ UNCHANGED <<contexts_, lock_, nextId, everReturned, peak, mgr, topVars>>

Next ==
  \E t \in Threads :
    \/ \E config \in Configs, type \in FactoryTypes : LockLookup(t, config, type)
    \/ ScanStep(t)
    \/ Build(t)
    \/ Insert(t)
    \/ ApplyAndReturn(t)
    \/ Release(t)

Spec == Init /\ [][Next]_vars

(***************************************************************************)
(* The top-level handler called by one caller at a time (specification     *)
(* SpecTop): each call runs from its entry to its return.                  *)
(***************************************************************************)
\* the greatest number of position, and of orientation, constraints of a request
MaxConstraints == 2

GroupNames == {<<>>, <<"a">>, <<"b">>}
PlannerIds == {<<>>, <<"P">>, <<"a", "[", "P", "]">>, <<"Q">>}

\* the keys the planner configurations may have
ConfigKeys == {<<"a">>, <<"a", "[", "P", "]">>, <<"b">>}

\* a configuration's parameters: each of the two flags is absent, or holds
\* "0", "1" or the text "true"
FlagValues == {"absent", "0", "1", "true"}
MkConfig(ec, ej) ==
  [k \in {"range"}
         \cup (IF ec # "absent" THEN {"enforce_constrained_state_space"} ELSE {})
         \cup (IF ej # "absent" THEN {"enforce_joint_model_state_space"} ELSE {}) |->
     CASE k = "range" -> "1"
       [] k = "enforce_constrained_state_space" -> ec
       [] k = "enforce_joint_model_state_space" -> ej]

\* the settings stored under a key: the key is their name, its first
\* character their group
Settings(key, cfg) == [name |-> key, group |-> <<Head(key)>>, config |-> cfg]

\* the configuration maps given to setPlannerConfigurations: any set of keys
\* without flags, or all keys with flags on the group "a"
PlannerConfigMaps ==
  {[k \in D |-> Settings(k, MkConfig("absent", "absent"))] : D \in SUBSET ConfigKeys}
  \cup {[k \in ConfigKeys |->
           Settings(k, IF k = <<"a">> THEN MkConfig(ec, ej) ELSE MkConfig("absent", "absent"))] :
         ec \in FlagValues, ej \in FlagValues}

\* the planner types a configuration may name under "type"
TypesNamed == {"geometric::PRM", "geometric::Unknown"}
WithType(cfg, type) ==
  [k \in DOMAIN cfg \cup {"type"} |-> IF k = "type" THEN type ELSE cfg[k]]

\* the configuration maps that name a planner type for the group "a"
TypedConfigMaps ==
  {[k \in {<<"a">>} |-> Settings(k, WithType(MkConfig("absent", "absent"), type))] :
     type \in TypesNamed}

\* what the factories answer to canRepresentProblem
ScoreValues == {-1, 0, 3, 5, 10}
\* the answers used with the requests of the top-level handler
SomeScores ==
  {[t \in {JointType, PoseType, ConstrainedType} |->
      CASE t = JointType -> j [] t = PoseType -> p [] t = ConstrainedType -> c] :
   <<j, p, c>> \in {<<5, 10, 3>>, <<0, 0, 0>>, <<10, 10, 10>>}}
BaseScores == CHOOSE v \in SomeScores : v[JointType] = 5

\* what context->configure may do: return, raise the library's exception, or
\* raise the boost::bad_lexical_cast of the planner allocator it runs
ConfigureOutcomes == {"ok", "ompl::Exception", "boost::bad_lexical_cast"}

BaseReq ==
  [group_name |-> <<"a">>, planner_id |-> <<>>, npos |-> 0, nori |-> 0, scene |-> TRUE,
   scores |-> BaseScores, path_ok |-> TRUE, goal_ok |-> TRUE, configure |-> "ok"]

\* the requests: each family varies some fields of the base request
Requests ==
  {[BaseReq EXCEPT !.group_name = g, !.planner_id = p] :
     g \in GroupNames, p \in PlannerIds}
  \cup {[BaseReq EXCEPT !.group_name = g, !.scene = FALSE] : g \in GroupNames}
  \cup {[BaseReq EXCEPT !.npos = np, !.nori = no] :
          np \in 0..MaxConstraints, no \in 0..MaxConstraints}
  \cup {[BaseReq EXCEPT !.scores = v] : v \in SomeScores}
  \cup {[BaseReq EXCEPT !.path_ok = po, !.goal_ok = go, !.configure = cf] :
          po \in BOOLEAN, go \in BOOLEAN, cf \in {"ok", "ompl::Exception"}}
  \cup {[BaseReq EXCEPT !.configure = cf] : cf \in ConfigureOutcomes}

InitTop ==
  /\ InitManager
  /\ planner_configs_ \in PlannerConfigMaps \cup TypedConfigMaps
  /\ storage_ = << >>

\* the outcomes of the undefined behaviour a request may run into
UbFor(rq) ==
  IF ReachesAcquisition(rq) /\ SelectedFactory(rq).null THEN UbOutcomes ELSE {"fault"}

\* one call of the top-level getPlanningContext by caller t
TopRequest(t, rq, ub) ==
  /\ pc[t] = "idle"
  /\ ReachesAcquisition(rq) => nextId <= MaxCtx
  /\ \E g \in {GetPlanningContext(t, rq, ub)} :
       /\ result' = g.result
       /\ contexts_' = g.cache
       /\ heap' = g.heap
       /\ refs' = g.refs
       /\ nextId' = g.next
       /\ everReturned' = everReturned \cup g.returned
       /\ pc' = [pc EXCEPT ![t] = IF g.held THEN "held" ELSE "idle"]
       /\ context' = [context EXCEPT ![t] = g.result.ctx]
  /\ req' = rq
  /\ UNCHANGED <<lock_, call, idx, freeAtLock, hit, peak, mgr, nsets, planner_configs_,
                 regVars, allocVars>>

\* the planner ids asked of the planner selector
AskedPlanners == {"geometric::PRM", "geometric::Unknown"}

\* one call of plannerSelector(planner), through getPlannerSelector()
SelectPlanner(planner) ==
  /\ req' = NoReq
  /\ result' = [NoResult EXCEPT
                  !.outcome = "returned", !.stage = "planner_selector", !.asked = planner,
                  !.allocator = PlannerSelector(known_planners_, planner)]
  /\ UNCHANGED <<cacheVars, threadVars, mgr, nsets, planner_configs_, regVars, allocVars>>

\* the callers of the top-level handler
TopCallers == {"t1"}

NextTop ==
  \/ \E t \in TopCallers :
       \/ \E rq \in Requests : \E ub \in UbFor(rq) : TopRequest(t, rq, ub)
       \/ Release(t)
  \/ \E planner \in AskedPlanners : SelectPlanner(planner)

SpecTop == InitTop /\ [][NextTop]_vars

(***************************************************************************)
(* The top-level handler called by two callers, with requests whose        *)
(* constraints are accepted or rejected (specification SpecReject).        *)
(***************************************************************************)
\* the planner configurations: one for the group "a", one for the group "b"
RejectConfigs ==
  [k \in {<<"a">>, <<"b">>} |-> Settings(k, MkConfig("absent", "absent"))]

\* the requests: for either group, setPathConstraints and setGoalConstraints
\* accept, or one of them rejects
RejectRequests ==
  {[BaseReq EXCEPT !.group_name = g, !.path_ok = po, !.goal_ok = go] :
     g \in {<<"a">>, <<"b">>}, <<po, go>> \in {<<TRUE, TRUE>>, <<FALSE, TRUE>>, <<TRUE, FALSE>>}}

InitReject ==
  /\ InitManager
  /\ planner_configs_ = RejectConfigs
  /\ storage_ = << >>

NextReject ==
  \E t \in Threads :
    \/ \E rq \in RejectRequests : \E ub \in UbFor(rq) : TopRequest(t, rq, ub)
    \/ Release(t)

SpecReject == InitReject /\ [][NextReject]_vars

(***************************************************************************)
(* The priority selection on its own (specification SpecSelect): factories *)
(* are registered and getStateSpaceFactory(group, req) is called with any  *)
(* answers of the factories.                                               *)
(***************************************************************************)
AllTypes == {TypeNameOrder[i] : i \in 1..Len(TypeNameOrder)}
AllScoreVectors == [AllTypes -> ScoreValues]

\* registerStateSpaceFactory(factory)
RegisterFactory(type) ==
  /\ state_space_factories_' = RegisterStateSpaceFactory(state_space_factories_, Factory(type))
  /\ registered' = IF type \in DOMAIN state_space_factories_
                     THEN registered ELSE Append(registered, type)
  /\ UNCHANGED <<cacheVars, threadVars, mgr, nsets, planner_configs_, known_planners_,
                 req, result, allocVars>>

\* getStateSpaceFactory(group, req), the factories answering `scores`
SelectByProblem(scores) ==
  /\ req' = [NoReq EXCEPT !.group_name = <<"a">>, !.scores = scores]
  /\ result' = [NoResult EXCEPT
                  !.outcome = "returned", !.stage = "by_problem",
                  !.factory = GetStateSpaceFactoryByProblem(state_space_factories_, scores)]
  /\ UNCHANGED <<cacheVars, threadVars, mgr, nsets, planner_configs_, regVars, allocVars>>

\* the types asked of getStateSpaceFactory(factory_type)
AskedTypes == AllTypes \cup {"", "UnknownModel"}

\* getStateSpaceFactory(factory_type)
SelectByType(type) ==
  /\ req' = [NoReq EXCEPT !.group_name = <<"a">>]
  /\ result' = [NoResult EXCEPT
                  !.outcome = "returned", !.stage = "by_type", !.asked = type,
                  !.factory = GetStateSpaceFactoryByType(state_space_factories_, type)]
  /\ UNCHANGED <<cacheVars, threadVars, mgr, nsets, planner_configs_, regVars, allocVars>>

NextSelect ==
  \/ \E type \in AllTypes : RegisterFactory(type)
  \/ \E scores \in AllScoreVectors : SelectByProblem(scores)
  \/ \E type \in AskedTypes : SelectByType(type)

SpecSelect == Init /\ [][NextSelect]_vars

(***************************************************************************)
(* The limits of the manager (specification SpecLimits): the limits are    *)
(* set between calls of getPlanningContext(config, factory, req), each     *)
(* call running from its entry to its return.                              *)
(***************************************************************************)
\* the greatest number of calls of the setters
MaxSets == 2

\* the values a limit is set to: the one of the constructor, or another one
LimitValues(limit) == {ManagerInit[limit], 1}

\* the configurations passed by the callers: two sets of parameters
LimitConfigs == [name : {<<"a">>}, config : {[range |-> "1"], [range |-> "2"]}]

\* setMaximumGoalSamples, setMaximumStateSamplingAttempts,
\* setMaximumGoalSamplingAttempts, setMaximumPlanningThreads,
\* setMaximumSolutionSegmentLength, setMinimumWaypointCount of the manager
SetLimit(limit, v) ==
  /\ nsets < MaxSets
  /\ nsets' = nsets + 1
  /\ mgr' = [mgr EXCEPT ![limit] = v]
  /\ UNCHANGED <<cacheVars, threadVars, planner_configs_, regVars, req, result, allocVars>>

\* getPlanningContext(config, factory, req) called by caller t
AcquireCall(t, config, type) ==
  /\ pc[t] = "idle"
  /\ Builds(contexts_, refs, config, type) => nextId <= MaxCtx
  /\ \E a \in {Acquire(contexts_, heap, refs, nextId, mgr, t, config, type)} :
       /\ contexts_' = a.cache
       /\ heap' = a.heap
       /\ refs' = a.refs
       /\ nextId' = a.next
       /\ context' = [context EXCEPT ![t] = a.ctx]
       /\ hit' = [hit EXCEPT ![t] = a.hit]
       /\ everReturned' = everReturned \cup {a.ctx}
  /\ call' = [call EXCEPT ![t] = [name |-> config.name, type |-> type, config |-> config.config]]
  /\ pc' = [pc EXCEPT ![t] = "held"]
  /\ UNCHANGED <<lock_, idx, freeAtLock, peak, mgr, topVars>>

NextLimits ==
  \/ \E limit \in DOMAIN ManagerInit : \E v \in LimitValues(limit) : SetLimit(limit, v)
  \/ \E t \in Threads :
       \/ \E config \in LimitConfigs, type \in FactoryTypes : AcquireCall(t, config, type)
       \/ Release(t)

SpecLimits == Init /\ [][NextLimits]_vars

(***************************************************************************)
(* The planner allocator (specification SpecAlloc): allocatePlanner<T> is  *)
(* called with any name and configuration, the planners kept for           *)
(* multi-query planning grow their graphs, and the allocator is destroyed. *)
(***************************************************************************)
\* the greatest number of planner instances constructed
MaxPlanners == 2
\* the greatest number of vertices of a planner's graph
MaxGraph == 1

\* the planner types T: og::PRM has an allocatePersistentPlanner
\* specialisation, og::RRT has the default one
PlannerTypes == {"PRM", "RRT"}
SupportsPersistence(T) == T = "PRM"

\* std::make_shared<T>(si): a planner named after its type, with no graph
FreshPlanner(T, id) ==
  [null |-> FALSE, id |-> id, type |-> T, name |-> T, params |-> << >>, applied |-> FALSE,
   graph |-> 0, seeded |-> FALSE]

\* allocatePersistentPlanner<T>(data), ignoring the data
AllocatePersistentPlannerEmpty(T, data, id) ==
  IF SupportsPersistence(T) THEN [FreshPlanner(T, id) EXCEPT !.seeded = TRUE] ELSE NullPlanner

\* allocatePersistentPlanner<T>(data): new T(data), or nullptr
AllocatePersistentPlanner(T, data, id) ==
  IF SupportsPersistence(T)
    THEN [FreshPlanner(T, id) EXCEPT !.graph = data, !.seeded = TRUE]
    ELSE NullPlanner

\* storage_.load(file_path, data): the data of the file, none when the file
\* cannot be read
LoadData(files, file_path) == IF file_path \in DOMAIN files THEN files[file_path] ELSE 0

\* allocatePlannerImpl<T>(si, new_name, spec, load_planner_data,
\* store_planner_data, file_path): the planner and the paths it leaves
AllocatePlannerImpl(T, new_name, config, load_planner_data, store_planner_data, file_path, id) ==
  LET loaded == IF load_planner_data
                  THEN AllocatePersistentPlanner(T, LoadData(storage_, file_path), id)
                  ELSE NullPlanner
      built == IF loaded.null THEN FreshPlanner(T, id) ELSE loaded
      named == IF new_name # "" THEN [built EXCEPT !.name = new_name] ELSE built
  IN [planner |-> [named EXCEPT !.params = config, !.applied = TRUE],
      paths |-> IF store_planner_data
                  THEN [n \in DOMAIN planner_data_storage_paths_ \cup {new_name} |->
                          IF n = new_name THEN file_path ELSE planner_data_storage_paths_[n]]
                  ELSE planner_data_storage_paths_]

\* a map with one entry set
Put(map, k, v) == [n \in DOMAIN map \cup {k} |-> IF n = k THEN v ELSE map[n]]

\* whether the cast of a flag of the configuration throws
FlagThrows(config, flag) == flag \in DOMAIN config /\ LexicalCastThrows(config[flag])

\* what a call of allocatePlanner leaves: the planner returned, planners_,
\* planner_data_storage_paths_ and the number of instances constructed;
\* outcome is "returned", "threw" or "fault"
AllocResult(outcome, planner, planners, paths, n) ==
  [outcome |-> outcome, planner |-> planner, planners |-> planners, paths |-> paths, made |-> n]

\* what planner_map_it->second->getPlannerData(data) on a null planner may
\* do: the call faults, or it goes on with some data
Fault == [fault |-> TRUE, data |-> 0]
AllocUbOutcomes == {Fault} \cup {[fault |-> FALSE, data |-> g] : g \in 0..MaxGraph}

\* allocatePlanner<T>(si, new_name, spec), spec.config_ being config, and ub
\* the outcome of the undefined behaviour should the call run into it
AllocatePlanner(T, new_name, config, ub) ==
  LET unchanged(outcome) ==
        AllocResult(outcome, NullPlanner, planners_, planner_data_storage_paths_, made)
      impl(load, store, file_path) ==
        AllocatePlannerImpl(T, new_name, config, load, store, file_path, made + 1)
  IN IF FlagThrows(config, "multi_query_planning_enabled") THEN unchanged("threw")
     ELSE IF FlagSet(config, "multi_query_planning_enabled")
       THEN IF new_name \in DOMAIN planners_
              THEN IF planners_[new_name].null /\ ub.fault THEN unchanged("fault")
                   ELSE LET data == IF planners_[new_name].null
                                      THEN ub.data ELSE planners_[new_name].graph
                            planner == AllocatePersistentPlanner(T, data, made + 1)
                        IN AllocResult("returned", planner, Put(planners_, new_name, planner),
                                       planner_data_storage_paths_,
                                       IF planner.null THEN made ELSE made + 1)
            ELSE IF FlagThrows(config, "load_planner_data")
                    \/ FlagThrows(config, "store_planner_data")
              THEN unchanged("threw")
            ELSE LET r == impl(FlagSet(config, "load_planner_data"),
                               FlagSet(config, "store_planner_data"),
                               IF "planner_data_path" \in DOMAIN config
                                 THEN config["planner_data_path"] ELSE "")
                 IN AllocResult("returned", r.planner, Put(planners_, new_name, r.planner),
                                r.paths, made + 1)
     ELSE LET r == impl(FALSE, FALSE, "")
          IN AllocResult("returned", r.planner, planners_, r.paths, made + 1)

\* the names of the planners, in the order of the keys of a std::map
NameOrder == <<"", "a">>
AllocNames == {NameOrder[i] : i \in 1..Len(NameOrder)}

\* the loop of the destructor from the entry of the i-th name on: the files
\* it leaves, and whether it ran to its end; ub as in AllocUbOutcomes
RECURSIVE StoreFrom(_, _, _)
StoreFrom(i, files, ub) ==
  IF i > Len(NameOrder) THEN [files |-> files, outcome |-> "returned"]
  ELSE LET n == NameOrder[i] IN
    IF n \notin DOMAIN planner_data_storage_paths_ THEN StoreFrom(i + 1, files, ub)
    ELSE IF n \notin DOMAIN planners_ \/ planners_[n].null
      THEN IF ub.fault THEN [files |-> files, outcome |-> "fault"]
           ELSE StoreFrom(i + 1, Put(files, planner_data_storage_paths_[n], ub.data), ub)
    ELSE StoreFrom(i + 1, Put(files, planner_data_storage_paths_[n], planners_[n].graph), ub)

\* a configuration; "absent" leaves the key out
MkAllocConfig(mq, load, store, path, range) ==
  LET given == [multi_query_planning_enabled |-> mq, load_planner_data |-> load,
                store_planner_data |-> store, planner_data_path |-> path, range |-> range]
  IN [k \in {key \in DOMAIN given : given[key] # "absent"} |-> given[k]]

\* the configurations of the calls: multi-query planning off (with and
\* without a request to store), on with each use of the flags of the data
\* and of the path, and a flag that cannot be cast
AllocConfigs ==
  {MkAllocConfig("absent", "absent", "absent", "absent", "1"),
   MkAllocConfig("0", "absent", "1", "p", "1"),
   MkAllocConfig("1", "absent", "absent", "absent", "1"),
   MkAllocConfig("1", "absent", "1", "p", "1"),
   MkAllocConfig("1", "1", "absent", "p", "1"),
   MkAllocConfig("1", "absent", "1", "q", "2"),
   MkAllocConfig("true", "absent", "absent", "absent", "absent"),
   MkAllocConfig("1", "absent", "true", "absent", "absent")}

\* the files there are when the allocator is constructed
InitialFiles == {<< >>, [f \in {"p"} |-> MaxGraph]}

InitAlloc ==
  /\ InitManager
  /\ planner_configs_ = << >>
  /\ storage_ \in InitialFiles

\* the outcomes of the undefined behaviour a call of allocatePlanner may run into
AllocUbFor(new_name, config) ==
  IF /\ ~FlagThrows(config, "multi_query_planning_enabled")
     /\ FlagSet(config, "multi_query_planning_enabled")
     /\ new_name \in DOMAIN planners_
     /\ planners_[new_name].null
    THEN AllocUbOutcomes ELSE {Fault}

\* one call of allocatePlanner<T>(si, new_name, spec)
Allocate(T, new_name, config, ub) ==
  /\ alloc.op # "destroy"
  /\ made < MaxPlanners
  /\ \E r \in {AllocatePlanner(T, new_name, config, ub)} :
       /\ planners_' = r.planners
       /\ planner_data_storage_paths_' = r.paths
       /\ made' = r.made
       /\ alloc' = [op |-> "allocate", outcome |-> r.outcome, name |-> new_name, type |-> T,
                     config |-> config, planner |-> r.planner,
                     old |-> Found(IF new_name \in DOMAIN planners_
                                     THEN planners_[new_name] ELSE NullPlanner)]
  /\ UNCHANGED <<cacheVars, threadVars, mgr, nsets, planner_configs_, regVars, req, result,
                 storage_>>

\* the planner kept under a name solves a query and adds a vertex to its graph
Grow(name) ==
  /\ alloc.op # "destroy"
  /\ name \in DOMAIN planners_
  /\ ~planners_[name].null
  /\ planners_[name].graph < MaxGraph
  /\ planners_' = [planners_ EXCEPT ![name].graph = @ + 1]
  /\ UNCHANGED <<cacheVars, threadVars, mgr, nsets, planner_configs_, regVars, req, result,
                 planner_data_storage_paths_, storage_, made, alloc>>

\* the outcomes of the undefined behaviour the destructor may run into
DestroyUbFor ==
  IF \E n \in DOMAIN planner_data_storage_paths_ : n \notin DOMAIN planners_ \/ planners_[n].null
    THEN AllocUbOutcomes ELSE {Fault}

\* ~MultiQueryPlannerAllocator()
Destroy(ub) ==
  /\ alloc.op # "destroy"
  /\ \E r \in {StoreFrom(1, storage_, ub)} :
       /\ storage_' = r.files
       /\ alloc' = [NoAlloc EXCEPT !.op = "destroy", !.outcome = r.outcome]
  /\ UNCHANGED <<cacheVars, threadVars, mgr, nsets, planner_configs_, regVars, req, result,
                 planners_, planner_data_storage_paths_, made>>

NextAlloc ==
  \/ \E T \in PlannerTypes, new_name \in AllocNames, config \in AllocConfigs :
       \E ub \in AllocUbFor(new_name, config) : Allocate(T, new_name, config, ub)
  \/ \E name \in AllocNames : Grow(name)
  \/ \E ub \in DestroyUbFor : Destroy(ub)

SpecAlloc == InitAlloc /\ [][NextAlloc]_vars

(***************************************************************************)
(* Properties of the concurrent acquisition (specification Spec).          *)
(***************************************************************************)
\* the place of a cached context in its list
PosIn(list, c) == CHOOSE i \in 1..Len(list) : list[i] = c

\* the thread is past the scan of its lookup
PastScan(t) == pc[t] \in {"build", "insert", "apply", "held"}

\* the thread t has just made a step of its call
Stepped(t) == pc'[t] # pc[t] \/ idx'[t] # idx[t]

\* C1: under any interleaving of acquisitions and releases, no context is
\* held by two callers at the same time: a context is handed out of the
\* cache only while the cache holds the only reference to it.
C1_NoTwoHolders == \A c \in CtxIds : Cardinality(refs[c]) <= 1

\* C1 witness: a caller holds a context taken from the second place of a
\* cached list, having passed over the first place, which another caller holds
C1_Witness ==
  \E t \in Threads, u \in Threads :
    /\ t # u
    /\ pc[t] = "held" /\ hit[t] /\ idx[t] = 2
    /\ pc[u] = "held" /\ context[u] = CachedList(contexts_, KeyOf(t))[1]

\* C2 as stated: a lookup that starts when a cached context c of its key is
\* unheld returns c itself.
C2_ReturnsThatInstance ==
  \A t \in Threads : PastScan(t) => \A c \in freeAtLock[t] : context[t] = c

\* C2 as amended: a lookup that starts when some cached context of its key
\* is unheld returns a cached context of that key, which is each such context
\* or one listed before it, and it constructs and inserts nothing.
C2_ReturnsFirstFree ==
  \A t \in Threads :
    (PastScan(t) /\ freeAtLock[t] # {}) =>
      /\ pc[t] \in {"apply", "held"}
      /\ hit[t]
      /\ LET list == CachedList(contexts_, KeyOf(t)) IN
           /\ \E i \in 1..Len(list) : list[i] = context[t]
           /\ \A c \in freeAtLock[t] : PosIn(list, context[t]) <= PosIn(list, c)

\* C2 witness: a caller holds the context it took from the cache at a lookup
\* that found two unheld contexts under the key
C2_Witness ==
  \E t \in Threads :
    /\ pc[t] = "held" /\ hit[t]
    /\ Cardinality(freeAtLock[t]) = 2
    /\ context[t] \in freeAtLock[t]

\* every cached context of t's key is held by a caller other than t
AllHeldByOthers(t) ==
  LET list == CachedList(contexts_, KeyOf(t)) IN
    \A i \in 1..Len(list) : refs[list[i]] \ {t} # {}

\* C3: for a non-constrained type, a lookup that ends while every cached
\* context of the key is held by another caller misses; the caller then
\* constructs a context that no list of the cache holds and that was never
\* returned, appends exactly it to the key's list (the other lists and the
\* earlier places of this one stay as they are) and returns it; a context
\* that is held is never taken out of the cache.
C3_MissBuildsAndAppends ==
  [][\A t \in Threads :
       /\ (pc[t] = "scan" /\ pc'[t] # "scan" /\ AllHeldByOthers(t)) =>
            (pc'[t] = "build" /\ context'[t] = Null /\ contexts_' = contexts_)
       /\ (pc[t] = "scan" /\ pc'[t] = "apply") => refs[context'[t]] = {}
       /\ (pc[t] = "build" /\ pc'[t] # "build") =>
            /\ context'[t] # Null
            /\ context'[t] \notin CachedIds(contexts_) \cup everReturned
            /\ \A u \in Threads \ {t} : context[u] # context'[t]
            /\ contexts_' = contexts_
            /\ call[t].type # ConstrainedType => pc'[t] = "insert"
       /\ (pc[t] = "insert" /\ pc'[t] # "insert") =>
            /\ pc'[t] = "apply"
            /\ DOMAIN contexts_' = DOMAIN contexts_ \cup {KeyOf(t)}
            /\ contexts_'[KeyOf(t)] = Append(CachedList(contexts_, KeyOf(t)), context[t])
            /\ \A k \in DOMAIN contexts_ \ {KeyOf(t)} : contexts_'[k] = contexts_[k]
       /\ (pc[t] = "apply" /\ pc'[t] = "held") => context'[t] = context[t]
    ]_vars

\* C3 witness: a caller is about to be returned the context it constructed
\* and appended behind a cached context that another caller holds
C3_Witness ==
  \E t \in Threads :
    LET list == CachedList(contexts_, KeyOf(t)) IN
      /\ pc[t] = "apply" /\ ~hit[t]
      /\ Len(list) >= 2
      /\ list[Len(list)] = context[t]
      /\ refs[list[1]] \ {t} # {}

\* C4: no list of the cache holds a context of the constrained type and no
\* key of the cache has that type; an acquisition for the constrained type
\* is never served from the cache, returns a context that was not returned
\* before, and none of its steps changes the cache.
C4_ConstrainedNeverCached ==
  /\ [](\A k \in DOMAIN contexts_ :
          /\ k[2] # ConstrainedType
          /\ \A i \in 1..Len(contexts_[k]) : heap[contexts_[k][i]].type # ConstrainedType)
  /\ [](\A t \in Threads :
          (call[t].type = ConstrainedType /\ PastScan(t)) =>
             /\ ~hit[t]
             /\ pc[t] # "insert"
             /\ context[t] \notin CachedIds(contexts_)
             /\ pc[t] = "apply" => context[t] \notin everReturned)
  /\ [][\A t \in Threads :
          (Stepped(t) /\ ConstrainedType \in {call[t].type, call'[t].type}) =>
             contexts_' = contexts_]_vars

\* C4 witness: a caller holds a constrained context while an earlier one,
\* returned before, is gone, and the cache holds none of the two
C4_Witness ==
  \E t \in Threads, c \in CtxIds :
    /\ pc[t] = "held" /\ call[t].type = ConstrainedType
    /\ c \in everReturned /\ c # context[t] /\ heap[c] = Destroyed
    /\ context[t] \notin CachedIds(contexts_)


(***************************************************************************)
(* Properties of the top-level handler (specification SpecTop).            *)
(***************************************************************************)
\* the caller of SpecTop, and a step that is one of its calls
TopCaller == CHOOSE t \in TopCallers : TRUE
IsTopCall == pc[TopCaller] = "idle" /\ result'.stage # "planner_selector"

\* the last call went as far as the selection of the factory
Selected == result.outcome \in {"returned", "fault"} /\ result.key # NotFound

\* C6 (as stated): when the selection yields no factory the handler returns a
\* null context with the generic failure code and does not go on to the
\* acquisition with the empty factory.
C6_NullFactoryIsFailure ==
  (Selected /\ result.factory.null) =>
    /\ result.outcome = "returned"
    /\ result.ctx = Null
    /\ result.err = "FAILURE"
    /\ result.acquired = Null

\* C7: a call with an empty group name returns a null context and the
\* invalid-group-name code whatever the other inputs are, builds no context
\* and leaves the cache as it was; a missing scene with a group name returns
\* a null context and the generic failure code.
C7_EmptyGroupRejected ==
  [][IsTopCall =>
       /\ req'.group_name = <<>> =>
            /\ result'.outcome = "returned"
            /\ result'.ctx = Null
            /\ result'.err = "INVALID_GROUP_NAME"
            /\ UNCHANGED <<contexts_, heap, refs, nextId>>
       /\ (req'.group_name # <<>> /\ ~req'.scene) =>
            /\ result'.outcome = "returned"
            /\ result'.ctx = Null
            /\ result'.err = "FAILURE"
            /\ UNCHANGED <<contexts_, heap, refs, nextId>>]_vars

\* an empty group name together with a missing scene, on a manager whose
\* cache holds a context
C7_Witness ==
  /\ req.group_name = <<>>
  /\ ~req.scene
  /\ result.err = "INVALID_GROUP_NAME"
  /\ contexts_ # << >>

\* the key the resolution is to try first
C8_FirstKey ==
  IF Contains(req.planner_id, req.group_name)
    THEN req.planner_id
    ELSE req.group_name \o <<"[">> \o req.planner_id \o <<"]">>

\* C8: with a planner id the key is group[plannerId], or plannerId itself
\* when it contains the group name; when that key is absent or the planner
\* id is empty the group name is the key; when the group name is absent too
\* the call returns a null context and the generic failure code.
C8_ConfigResolution ==
  (req.group_name # <<>> /\ req.scene) =>
    IF req.planner_id # <<>> /\ C8_FirstKey \in DOMAIN planner_configs_
      THEN result.key = C8_FirstKey
    ELSE IF req.group_name \in DOMAIN planner_configs_
      THEN result.key = req.group_name
    ELSE /\ result.outcome = "returned"
         /\ result.ctx = Null
         /\ result.err = "FAILURE"
         /\ result.key = NotFound

\* a planner id that contains the group name was used as the key, and the
\* context of that configuration was returned
C8_Witness ==
  /\ req.group_name = <<"a">>
  /\ req.planner_id = <<"a", "[", "P", "]">>
  /\ result.key = req.planner_id
  /\ result.ctx # Null
  /\ heap[result.ctx].name = req.planner_id

\* the configuration the last call resolved, and what its two flags say
C9_Config == planner_configs_[result.key].config
C9_FlagTrue(flag) == flag \in DOMAIN C9_Config /\ C9_Config[flag] = "1"
C9_ConstrainedForced ==
  /\ C9_FlagTrue("enforce_constrained_state_space")
  /\ (req.npos = 1 \/ req.nori = 1)

\* the resolved configuration without the flag of the constrained state space
C9_WithoutConstrainedFlag ==
  [planner_configs_[result.key] EXCEPT
     !.config = [k \in DOMAIN C9_Config \ {"enforce_constrained_state_space"} |-> C9_Config[k]]]

\* C9: the constrained factory is forced exactly when the flag
\* enforce_constrained_state_space is true and the request has exactly one
\* position or exactly one orientation constraint; otherwise a true
\* enforce_joint_model_state_space forces the joint factory whatever the
\* scores are; otherwise the factory is the one of the priority selection.
\* With the first flag true and no path constraint the selection is the one
\* made without the flag.
C9_ThreeTierSelection ==
  Selected =>
    /\ IF C9_ConstrainedForced
         THEN result.factory = Factory(ConstrainedType)
       ELSE IF C9_FlagTrue("enforce_joint_model_state_space")
         THEN result.factory = Factory(JointType)
       ELSE result.factory = GetStateSpaceFactoryByProblem(state_space_factories_, req.scores)
    /\ (C9_FlagTrue("enforce_constrained_state_space") /\ req.npos = 0 /\ req.nori = 0) =>
         result.factory = SelectFactory(state_space_factories_, C9_WithoutConstrainedFlag, req)

\* both flags true and one position constraint: the constrained factory was
\* used although the pose factory scores highest, and its context returned
C9_Witness ==
  /\ Selected
  /\ C9_ConstrainedForced
  /\ C9_FlagTrue("enforce_joint_model_state_space")
  /\ req.scores[PoseType] > req.scores[ConstrainedType]
  /\ result.ctx # Null
  /\ heap[result.ctx].type = ConstrainedType

(***************************************************************************)
(* Properties of the priority selection (specification SpecSelect).        *)
(***************************************************************************)
\* the greatest of the scores of the factories of the registry m
C10_MaxScore(m, scores) ==
  CHOOSE x \in {scores[t] : t \in DOMAIN m} : \A t \in DOMAIN m : scores[t] <= x

\* what C10 says of the factory f selected among the factories of m
C10_SelectsMax(f, m, scores) ==
  IF \E t \in DOMAIN m : scores[t] > 0
    THEN /\ ~f.null
         /\ f.type \in DOMAIN m
         /\ scores[f.type] = C10_MaxScore(m, scores)
    ELSE f = EMPTY

\* the selection among any part of the registered factories, none of them
\* included, for the scores of the last call
C10_AmongAnyPart ==
  result.stage = "by_problem" =>
    \A D \in SUBSET DOMAIN state_space_factories_ :
      LET m == [t \in D |-> state_space_factories_[t]]
      IN C10_SelectsMax(GetStateSpaceFactoryByProblem(m, req.scores), m, req.scores)

\* C10: the priority selection returns a factory whose score is the greatest
\* of the registered factories' scores when that score is above zero, and
\* the empty result when no registered factory scores above zero or no
\* factory is registered; stated of the factory every call returns, and of
\* the selection among any part of the registered factories.
C10_PrioritySelection ==
  /\ [][((req' # req \/ result' # result) /\ result'.stage = "by_problem") =>
          C10_SelectsMax(result'.factory, state_space_factories_, req'.scores)]_vars
  /\ []C10_AmongAnyPart

\* the scores 5, 10 and 3 of the joint, pose and constrained factories: the
\* pose factory, scoring 10, was returned
C10_Witness ==
  /\ result.stage = "by_problem"
  /\ req.scores[JointType] = 5
  /\ req.scores[PoseType] = 10
  /\ req.scores[ConstrainedType] = 3
  /\ CustomType \notin DOMAIN state_space_factories_
  /\ result.factory = Factory(PoseType)

(***************************************************************************)
(* Properties of the limits (specification SpecLimits).                    *)
(***************************************************************************)
\* the context carries the limit of the manager; for the solution segment
\* length a context the manager never set a length on counts as carrying it
C5_Carries(ctx) ==
  /\ ctx.limits.max_goal_samples = <<mgr.max_goal_samples_>>
  /\ ctx.limits.max_state_sampling_attempts = <<mgr.max_state_sampling_attempts_>>
  /\ ctx.limits.max_goal_sampling_attempts = <<mgr.max_goal_sampling_attempts_>>
  /\ ctx.limits.max_planning_threads = <<mgr.max_planning_threads_>>
  /\ ctx.limits.minimum_waypoint_count = <<mgr.minimum_waypoint_count_>>
  /\ ctx.limits.max_solution_segment_length \in {<<>>, <<mgr.max_solution_segment_length_>>}

\* C5 (as stated): the context every acquisition returns, reused or built,
\* carries the current limits of the manager and the parameters of the
\* configuration of the call; a reused context keeps no limit of an earlier
\* acquisition that differs from the manager's.
C5_CarriesCurrentLimits ==
  [][\A t \in Threads :
       (pc[t] = "idle" /\ pc'[t] = "held") =>
         /\ C5_Carries(heap'[context'[t]])
         /\ heap'[context'[t]].config = call'[t].config]_vars

\* the place of a type in a sequence of types
RankIn(order, type) == CHOOSE i \in 1..Len(order) : order[i] = type

\* the factory f has the greatest score and, of the factories of m with that
\* score, the first place in `order`
C11_FirstOfTied(f, m, scores, order) ==
  (\E t \in DOMAIN m : scores[t] > 0) =>
    /\ ~f.null
    /\ \A t \in DOMAIN m : scores[t] <= scores[f.type]
    /\ \A t \in DOMAIN m :
         scores[t] = scores[f.type] => RankIn(order, f.type) <= RankIn(order, t)

\* a step that is a call of getStateSpaceFactory(group, req)
IsSelectByProblem == (req' # req \/ result' # result) /\ result'.stage = "by_problem"

\* C11 (as stated): of the factories that share the greatest positive score
\* the priority selection returns the one registered first.
C11_TieToEarlierRegistered ==
  [][IsSelectByProblem =>
       C11_FirstOfTied(result'.factory, state_space_factories_, req'.scores, registered)]_vars

\* C11 (amended): of the factories that share the greatest positive score
\* the priority selection returns the one whose type name is the least, the
\* factories being walked in the order of their names.
C11_TieToLeastName ==
  [][IsSelectByProblem =>
       C11_FirstOfTied(result'.factory, state_space_factories_, req'.scores, TypeNameOrder)]_vars

\* the three default factories all score 10: the constrained factory, the
\* last one registered, was returned
C11_Witness ==
  /\ result.stage = "by_problem"
  /\ \A t \in {JointType, PoseType, ConstrainedType} : req.scores[t] = 10
  /\ CustomType \notin DOMAIN state_space_factories_
  /\ registered[1] = JointType
  /\ result.factory = Factory(ConstrainedType)

\* what getStateSpaceFactory(factory_type) is to return for a type that is
\* not empty
C12_ExactMatch(f, m, type) ==
  IF type \in DOMAIN m THEN f = m[type] /\ f.type = type ELSE f = EMPTY

\* a step that is a call of getStateSpaceFactory(factory_type)
IsSelectByType == (req' # req \/ result' # result) /\ result'.stage = "by_type"

\* C12 (as stated): getStateSpaceFactory(type) returns the factory registered
\* under that type, the empty result for a type that is not registered, and
\* for the empty type the factory registered first.
C12_EmptyTypeFirstRegistered ==
  [][IsSelectByType =>
       IF result'.asked = ""
         THEN result'.factory = state_space_factories_[registered[1]]
         ELSE C12_ExactMatch(result'.factory, state_space_factories_, result'.asked)]_vars

\* C12 (amended): getStateSpaceFactory(type) returns the factory registered
\* under that type, the empty result for a type that is not registered, and
\* for the empty type the registered factory whose type name is the least.
C12_EmptyTypeLeastName ==
  [][IsSelectByType =>
       IF result'.asked = ""
         THEN /\ ~result'.factory.null
              /\ \A t \in DOMAIN state_space_factories_ :
                   RankIn(TypeNameOrder, result'.factory.type) <= RankIn(TypeNameOrder, t)
         ELSE C12_ExactMatch(result'.factory, state_space_factories_, result'.asked)]_vars

\* the empty type was asked of the default registration: the constrained
\* factory was returned, the joint factory being the first registered
C12_Witness ==
  /\ result.stage = "by_type"
  /\ result.asked = ""
  /\ registered = DefaultRegistrationOrder
  /\ result.factory = Factory(ConstrainedType)

(***************************************************************************)
(* Properties of the planner allocator (specification SpecAlloc).          *)
(***************************************************************************)
\* a step that is a call of allocatePlanner, and one that returned
IsAllocate == alloc' # alloc /\ alloc'.op = "allocate"
AllocateReturned == IsAllocate /\ alloc'.outcome = "returned"

\* what a configuration asks for: a flag is asked when its text is "1"
Asks(config, flag) == flag \in DOMAIN config /\ config[flag] = "1"
AsksPath(config) ==
  IF "planner_data_path" \in DOMAIN config THEN config["planner_data_path"] ELSE ""

\* C13 (as stated): a name has a recorded path exactly when some multi-query
\* allocation under it asked to store: every call that returns records its
\* name, with the path of its configuration, when it is multi-query enabled
\* and asks to store, also when a live instance exists under the name, and
\* otherwise leaves the recorded paths as they were.
C13_PathRecordedIffStoreAsked ==
  [][AllocateReturned =>
       IF /\ Asks(alloc'.config, "multi_query_planning_enabled")
          /\ Asks(alloc'.config, "store_planner_data")
         THEN planner_data_storage_paths_' =
                Put(planner_data_storage_paths_, alloc'.name, AsksPath(alloc'.config))
         ELSE UNCHANGED planner_data_storage_paths_]_vars

\* a step that is the destructor of the allocator
IsDestroy == alloc.op # "destroy" /\ alloc'.op = "destroy"

\* the recorded names whose path no other recorded name has
C14_OwnPath(n) ==
  \A o \in DOMAIN planner_data_storage_paths_ :
    o # n => planner_data_storage_paths_[o] # planner_data_storage_paths_[n]

\* C14 (as stated): when the allocator is destroyed every recorded name has
\* a live instance in planners_, the destructor runs to its end, and the
\* file of every recorded path holds the graph that instance has then.
C14_TeardownStoresLiveGraphs ==
  [][IsDestroy =>
       /\ alloc'.outcome = "returned"
       /\ \A n \in DOMAIN planner_data_storage_paths_ :
            /\ n \in DOMAIN planners_
            /\ ~planners_[n].null
            /\ C14_OwnPath(n) =>
                 /\ planner_data_storage_paths_[n] \in DOMAIN storage_'
                 /\ storage_'[planner_data_storage_paths_[n]] = planners_[n].graph]_vars

\* C15: a multi-query call for a type with persistent reconstruction, under
\* a name that has a live instance, returns a new instance of that type
\* seeded with the graph the previous instance has at the call, and puts it
\* in planners_ in the place of the previous one; the graph does not shrink.
C15_ReuseSeedsFromLiveInstance ==
  [][(/\ AllocateReturned
      /\ Asks(alloc'.config, "multi_query_planning_enabled")
      /\ alloc'.name \in DOMAIN planners_
      /\ ~planners_[alloc'.name].null
      /\ SupportsPersistence(alloc'.type)) =>
       /\ ~alloc'.planner.null
       /\ alloc'.planner.type = alloc'.type
       /\ alloc'.planner.seeded
       /\ alloc'.planner.graph = planners_[alloc'.name].graph
       /\ alloc'.planner.graph >= planners_[alloc'.name].graph
       /\ alloc'.planner.id # planners_[alloc'.name].id
       /\ \A n \in DOMAIN planners_ : alloc'.planner.id # planners_[n].id
       /\ planners_'[alloc'.name] = alloc'.planner
       /\ \A n \in DOMAIN planners_ \ {alloc'.name} : planners_'[n] = planners_[n]]_vars

\* with no file to load from, the second instance under a name was seeded
\* with the vertex the first one had added to its graph
C15_Witness ==
  /\ alloc.op = "allocate"
  /\ alloc.outcome = "returned"
  /\ storage_ = << >>
  /\ alloc.name \in DOMAIN planners_
  /\ planners_[alloc.name] = alloc.planner
  /\ Asks(alloc.config, "multi_query_planning_enabled")
  /\ ~alloc.old.null
  /\ alloc.old.graph = MaxGraph
  /\ alloc.planner.seeded
  /\ alloc.planner.graph = MaxGraph
  /\ alloc.planner.id # alloc.old.id

\* C16 (as stated): every call of allocatePlanner that returns returns a
\* planner that is not null, a type without persistent reconstruction
\* getting a fresh unseeded instance, and planners_ holds no null planner.
C16_NeverNullPlanner ==
  /\ (alloc.op = "allocate" /\ alloc.outcome = "returned") =>
       /\ ~alloc.planner.null
       /\ ~SupportsPersistence(alloc.type) =>
            (alloc.planner.type = alloc.type /\ ~alloc.planner.seeded)
  /\ \A n \in DOMAIN planners_ : ~planners_[n].null

\* the keys the allocator reads for itself
ReservedKeys ==
  {"multi_query_planning_enabled", "load_planner_data", "store_planner_data",
   "planner_data_path"}

\* C19 (as stated): the parameters given to the planner a call returns hold
\* none of the reserved keys and hold every other key of the configuration
\* with its value.
C19_ReservedKeysRemoved ==
  (alloc.op = "allocate" /\ alloc.outcome = "returned" /\ ~alloc.planner.null) =>
    /\ DOMAIN alloc.planner.params \cap ReservedKeys = {}
    /\ \A k \in DOMAIN alloc.config \ ReservedKeys :
         /\ k \in DOMAIN alloc.planner.params
         /\ alloc.planner.params[k] = alloc.config[k]

\* C20 (as stated): the planner a call returns has had the parameters of the
\* configuration applied and, the name asked being non-empty, has that name,
\* on every path of the call.
C20_NameAndParamsApplied ==
  (alloc.op = "allocate" /\ alloc.outcome = "returned" /\ ~alloc.planner.null) =>
    /\ alloc.planner.applied
    /\ alloc.name # "" => alloc.planner.name = alloc.name

(***************************************************************************)
(* Properties of the planner selector and of the Configure step            *)
(* (specification SpecTop).                                                *)
(***************************************************************************)
\* a step that is a call of plannerSelector
IsSelectPlanner == result'.stage = "planner_selector"

\* the call went as far as context->configure
ReachedConfigure(res) == res.stage \in {"configure", "done"}

\* the configuration names a planner type
C17_NamesType(config) == "type" \in DOMAIN config

\* what plannerSelector must answer for an id
C17_Answer(al, known, planner) ==
  IF planner \in DOMAIN known
    THEN ~al.null /\ al = known[planner]
    ELSE al.null

C18_EveryConfigureExceptionCaught ==
  [][(IsTopCall /\ result'.stage = "configure") =>
       /\ result'.outcome = "returned"
       /\ result'.ctx = Null
       /\ result'.err = "FAILURE"]_vars

(***************************************************************************)
(* Properties of a request whose constraints are rejected (specification   *)
(* SpecReject).                                                            *)
(***************************************************************************)
\* a step of SpecReject that is a call of the handler, not a release
IsRequestStep == \A t \in Threads : ~(pc[t] = "held" /\ pc'[t] = "idle")

\* the call stopped at setPathConstraints or setGoalConstraints
Rejected(res) == res.stage \in {"path_constraints", "goal_constraints"}

\* the key of the cache the call worked on
C21_CacheKey(res) == Key(res.key, res.factory.type)

\* the call res was for the same key of the cache as the call before it
C21_SameKey(res, before) == C21_CacheKey(res) = C21_CacheKey(before)

\* every list of the cache `before` is the beginning of its list in `after`
NothingRemoved(before, after) ==
  \A k \in DOMAIN before :
    /\ k \in DOMAIN after
    /\ Len(after[k]) >= Len(before[k])
    /\ SubSeq(after[k], 1, Len(before[k])) = before[k]

\* the rejected call: a null context, an error code that is not success,
\* configure not reached, and the acquired context cached under the key
C21_RejectedCall(res, cache) ==
  /\ res.outcome = "returned"
  /\ res.ctx = Null
  /\ res.err # "SUCCESS"
  /\ ~ReachedConfigure(res)
  /\ res.acquired # Null
  /\ HasEntry(cache, C21_CacheKey(res))
  /\ PosIn(cache[C21_CacheKey(res)], res.acquired) > 0

\* C21 (as stated): a request whose path or goal constraints are rejected
\* returns a null context with an error code that is not success, without
\* configure, and leaves its context in the cache; the request for the same
\* key that follows is given that same context.
C21_RejectedContextReused ==
  [][IsRequestStep =>
       /\ Rejected(result') =>
            (C21_RejectedCall(result', contexts_') /\ NothingRemoved(contexts_, contexts_'))
       /\ (Rejected(result) /\ C21_SameKey(result', result)) =>
            (result'.hit /\ result'.acquired = result.acquired)]_vars

\* C21 (amended): a request whose path or goal constraints are rejected
\* returns a null context with an error code that is not success, without
\* configure, and leaves its context in the cache, unheld; the request for
\* the same key that follows builds nothing and is given a cached context of
\* the key: that one, or an unheld one listed before it.
C21_RejectedContextStaysCached ==
  [][IsRequestStep =>
       /\ Rejected(result') =>
            /\ C21_RejectedCall(result', contexts_')
            /\ NothingRemoved(contexts_, contexts_')
            /\ refs'[result'.acquired] = {}
       /\ (Rejected(result) /\ C21_SameKey(result', result)) =>
            /\ result'.hit
            /\ nextId' = nextId
            /\ contexts_' = contexts_
            /\ PosIn(contexts_[C21_CacheKey(result)], result'.acquired) \in
                  1..PosIn(contexts_[C21_CacheKey(result)], result.acquired)]_vars

\* a rejected request has built its context behind a cached one that another
\* caller holds, and has left it in the cache, unheld
C21_Witness ==
  /\ Rejected(result)
  /\ ~result.hit
  /\ result.ctx = Null
  /\ Len(CachedList(contexts_, C21_CacheKey(result))) = 2
  /\ contexts_[C21_CacheKey(result)][2] = result.acquired
  /\ refs[result.acquired] = {}
  /\ refs[contexts_[C21_CacheKey(result)][1]] # {}

(***************************************************************************)
(* Properties of concurrent misses and of the growth of the cache          *)
(* (specification Spec).                                                   *)
(***************************************************************************)
\* the caller t has missed for a non-constrained key and is past its insert
C22_Inserted(t) ==
  /\ pc[t] \in {"apply", "held"}
  /\ ~hit[t]
  /\ call[t].type # ConstrainedType

\* no context is listed twice in the list
C22_NoDuplicate(list) ==
  \A i, j \in 1..Len(list) : list[i] = list[j] => i = j

\* C22: the lock is not held across the construction, so two callers that
\* both miss for one non-constrained key each build a context and each append
\* it. However the steps interleave, no append is lost: an insert appends the
\* caller's context to the list as it is at that time, and the context of
\* every caller that has missed and inserted is in the list of its key; and no
\* list of the cache holds a context twice.
C22_ConcurrentMissesBothAppend ==
  /\ [](\A t \in Threads :
          C22_Inserted(t) =>
            \E i \in 1..Len(CachedList(contexts_, KeyOf(t))) :
              contexts_[KeyOf(t)][i] = context[t])
  /\ [](\A k \in DOMAIN contexts_ : C22_NoDuplicate(contexts_[k]))
  /\ [][\A t \in Threads :
          (pc[t] = "insert" /\ pc'[t] # "insert") =>
            contexts_'[KeyOf(t)] = Append(CachedList(contexts_, KeyOf(t)), context[t])]_vars

\* two callers have each scanned the empty list of the same key, built a
\* context and appended it: the list holds the two contexts
C22_Witness ==
  \E t, u \in Threads :
    /\ t # u
    /\ C22_Inserted(t) /\ C22_Inserted(u)
    /\ KeyOf(t) = KeyOf(u)
    /\ idx[t] = 1 /\ idx[u] = 1
    /\ context[t] # context[u]
    /\ Len(CachedList(contexts_, KeyOf(t))) = 2
    /\ {contexts_[KeyOf(t)][1], contexts_[KeyOf(t)][2]} = {context[t], context[u]}

\* the number of contexts cached under the key
CachedFor(key) == Len(CachedList(contexts_, key))

\* the callers that have missed for the key and have not yet inserted
PendingFor(key) ==
  {t \in Threads : KeyOf(t) = key /\ pc[t] \in {"build", "insert"}}

\* C24 (as stated): no step removes a context from a list of the cache, and
\* for every key the cached contexts and the misses not yet inserted are
\* together no more than the greatest number of contexts of the key that
\* callers have held or had under construction at the same time.
C24_BoundedByOutstanding ==
  /\ [][NothingRemoved(contexts_, contexts_')]_vars
  /\ [](\A k \in Keys :
          CachedFor(k) + Cardinality(PendingFor(k)) <= peak[k].out)

\* C24 (amended): no step removes a context from a list of the cache, and
\* for every key the cached contexts and the misses not yet inserted are
\* together no more than the greatest number of callers that have had, at
\* the same time, an acquisition for the key begun and its context not yet
\* released.
C24_BoundedByActiveCallers ==
  /\ [][NothingRemoved(contexts_, contexts_')]_vars
  /\ [](\A k \in Keys :
          CachedFor(k) + Cardinality(PendingFor(k)) <= peak[k].active)

\* two contexts are cached under a key although no two contexts of the key
\* were ever held or under construction at the same time: the holder of the
\* first released it while the lookup of a second caller was past it
C24_Witness ==
  \E k \in Keys :
    /\ CachedFor(k) = 2
    /\ peak[k].out = 1
    /\ peak[k].active = 2

(***************************************************************************)
(* The context and the error code of the top-level handler (specification  *)
(* SpecTop).                                                               *)
(***************************************************************************)
\* the places where a call of the handler ends
C23_Stages ==
  {"validate", "no_config", "bad_lexical_cast", "null_factory", "path_constraints",
   "goal_constraints", "configure", "done"}

\* the last call got a context for the request
C23_Acquired == result.key # NotFound /\ result.acquired # Null

\* the place where the last call ended is the first step that failed
C23_EndsAtFirstFailure ==
  /\ result.stage = "validate" <=> (req.group_name = <<>> \/ ~req.scene)
  /\ result.stage = "no_config" =>
       ResolveConfig(planner_configs_, req.group_name, req.planner_id) = NotFound
  /\ result.stage = "path_constraints" <=> (C23_Acquired /\ ~req.path_ok)
  /\ result.stage = "goal_constraints" <=> (C23_Acquired /\ req.path_ok /\ ~req.goal_ok)
  /\ result.stage = "configure" <=>
       /\ C23_Acquired /\ req.path_ok /\ req.goal_ok
       /\ (req.configure # "ok" \/ result.allocator.null)
  /\ result.stage = "done" <=>
       /\ C23_Acquired /\ req.path_ok /\ req.goal_ok
       /\ req.configure = "ok" /\ ~result.allocator.null

====
